---- MODULE Spec2Model ----
(***************************************************************************)
(* In-memory publish/subscribe broker (InMemoryBroker, BoundedQueue,       *)
(* RingBuffer) together with the session adapter and the REST handlers     *)
(* that drive it.  Node runs every handler to completion on one thread,    *)
(* so each handler is one atomic action; deleteTopic is split at its       *)
(* emit / disconnect / registry-delete statements so that the order of     *)
(* those statements is observable, and no other handler runs in between.   *)
(***************************************************************************)
EXTENDS Integers, Sequences, FiniteSets, TLC

\* ---------------------------------------------------------------- bounds
Sockets    == {"s1", "s2"}        \* socket.id of the connections that may appear
TopicNames == {"a", "b"}          \* topic names clients and REST callers use
MaxPublishes == 2                 \* publishes the broker accepts in one behaviour
MaxDelivered == 5                 \* largest value a topic's delivered counter takes
MaxPushes    == 8                 \* pushDropOldest calls on the queue on its own
MaxAppends   == 4                 \* append calls on the ring on its own
MaxCapacity  == 2                 \* largest capacity of a queue or ring on its own
MaxStarts == 2                    \* calls of start() in one behaviour
\* the BrokerOptions the broker is constructed with (index.ts gives 100 and 512):
\* a ring of two payloads, and a queue that, like the one of 512, never fills
Configs == {[ringBufferSize |-> 2, subscriberQueueSize |-> 2]}
\* last_n as clients send it: absent, 0, and values below, at and above the
\* number of payloads a ring holds
LastNs == {<<>>, <<0>>, <<1>>, <<2>>}
\* last_n of the subscribes that replay nothing
NoReplay == {<<>>, <<0>>}
\* request_id as clients send it in the main specification: absent
NoRequestId == {<<>>}
\* request_id absent, the empty string, or a non-empty string
RequestIds == {<<>>, <<"">>, <<"r1">>}

\* ------------------------------------------------------- program constants
DrainBatch == 100                 \* flush: sub.queue.drain(100)
Undefined  == 0                   \* an empty RingBuffer slot; message ids are >= 1

None == <<>>                      \* an optional field that is absent
Some(x) == <<x>>                  \* an optional field that is present

Min(a, b) == IF a <= b THEN a ELSE b

VARIABLES
    opts,        \* BrokerOptions given to the constructor
    topics,      \* InMemoryBroker.topics : name -> Topic
    sockets,     \* socket.id -> "open" | "closed"
    op,          \* name of the handler now running / last run
    out,         \* what that handler has emitted, in order: envelopes to sockets
                 \* and the HTTP response
    del,         \* position inside deleteTopic
    published,   \* publishes accepted so far (the next message id is published + 1)
    accepted,    \* topic name -> message ids its record accepted, in publish order
    deleted,     \* names whose topic deleteTopic removed and createTopic has not re-made
    ordering,    \* whether lastEvent is recorded (it is in SpecOrder)
    lastEvent,   \* <<topic, socket.id>> -> id of the latest event that publish sent
                 \* the socket for the topic since the socket joined its table, or 0
    hist,        \* what is remembered of the handlers run so far (see History)
    timer,       \* InMemoryBroker.heartbeatTimer and the intervals Node keeps
    unit         \* one BoundedQueue or RingBuffer driven on its own (SpecQueueUnit,
                 \* SpecRingUnit), with what was pushed or appended

vars == <<opts, topics, sockets, op, out, del, published, accepted, deleted, ordering,
          lastEvent, hist, timer, unit>>

\* ---------------------------------------------------------------- envelopes
Envelope(to, type, topic, id, info, rid) ==
    [to |-> to, type |-> type, topic |-> topic, id |-> id, info |-> info, rid |-> rid]

\* `if (requestId) x.request_id = requestId`: only a truthy request id is copied
IfTruthy(rid) == IF rid # None /\ rid[1] # "" THEN rid ELSE None

ErrorMessage(to, code, rid) == Envelope(to, "error", "", 0, code, rid)
AckMessage(to, topic, rid)  == Envelope(to, "ack", topic, 0, "ok", rid)
EventMessage(to, topic, id) == Envelope(to, "event", topic, id, "", None)
InfoMessage(to, topic, msg) == Envelope(to, "info", topic, 0, msg, None)
PongMessage(to, rid)        == Envelope(to, "pong", "", 0, "", rid)
\* res.status(status).json({status: body, topic})
HttpResponse(status, body, topic) == Envelope("http", "http", topic, status, body, None)

\* ------------------------------------------------------------- BoundedQueue
BoundedQueue(capacity) == [capacity |-> capacity, items |-> <<>>]

pushDropOldest(queue, item) ==
    LET full == Len(queue.items) >= queue.capacity
        kept == IF full /\ queue.items # <<>> THEN Tail(queue.items) ELSE queue.items
    IN  [queue   |-> [queue EXCEPT !.items = Append(kept, item)],
         dropped |-> IF full THEN 1 ELSE 0]

\* slice in place of splice: the batch is read and the items stay queued
drainSlice(queue, max) ==
    IF max <= 0
    THEN [batch |-> <<>>, queue |-> queue]
    ELSE [batch |-> SubSeq(queue.items, 1, Min(max, Len(queue.items))), queue |-> queue]

drain(queue, max) ==
    IF max <= 0
    THEN [batch |-> <<>>, queue |-> queue]
    ELSE LET k == Min(max, Len(queue.items))
         IN  [batch |-> SubSeq(queue.items, 1, k),
              queue |-> [queue EXCEPT !.items = SubSeq(@, k + 1, Len(@))]]

\* --------------------------------------------------------------- RingBuffer
RingBuffer(capacity) ==
    [capacity |-> capacity,
     buffer   |-> [i \in 1..capacity |-> Undefined],
     start    |-> 0,
     count    |-> 0]

\* a full ring overwrites its oldest slot and leaves start where it was
appendNoAdvance(ring, value) ==
    IF ring.capacity = 0
    THEN ring
    ELSE LET end == (ring.start + ring.count) % ring.capacity
         IN  [ring EXCEPT
                 !.buffer[end + 1] = value,
                 !.count = IF ring.count < ring.capacity THEN @ + 1 ELSE @]

append(ring, value) ==
    IF ring.capacity = 0
    THEN ring
    ELSE LET end == (ring.start + ring.count) % ring.capacity
         IN  [ring EXCEPT
                 !.buffer[end + 1] = value,
                 !.count = IF ring.count < ring.capacity THEN @ + 1 ELSE @,
                 !.start = IF ring.count < ring.capacity
                           THEN @ ELSE (@ + 1) % ring.capacity]

\* the loop starts at 0 in place of count - take: the oldest payloads are read
lastOldest(ring, n) ==
    LET take == Min(n, ring.count)
        read == [k \in 1..take |->
                    ring.buffer[((ring.start + (k - 1)) % ring.capacity) + 1]]
    IN  SelectSeq(read, LAMBDA v : v # Undefined)

last(ring, n) ==
    LET take == Min(n, ring.count)
        read == [k \in 1..take |->
                    ring.buffer[((ring.start + (ring.count - take) + (k - 1))
                                    % ring.capacity) + 1]]
    IN  SelectSeq(read, LAMBDA v : v # Undefined)

\* -------------------------------------------------------------------- Topic
\* topic.subscribers is a Map keyed by socket.id: a sequence in insertion order
Subscriber(id) == [id |-> id, queue |-> BoundedQueue(opts.subscriberQueueSize)]

Topic(name) ==
    [name        |-> name,
     subscribers |-> <<>>,
     ring        |-> RingBuffer(opts.ringBufferSize),
     stats       |-> [messages |-> 0, subscribers |-> 0, delivered |-> 0, dropped |-> 0]]

Keys(subscribers)    == {subscribers[i].id : i \in 1..Len(subscribers)}
\* an iteration that passes over the first entry
KeyListTail(subscribers) == [i \in 1..(Len(subscribers) - 1) |-> subscribers[i + 1].id]
KeyList(subscribers) == [i \in 1..Len(subscribers) |-> subscribers[i].id]
IndexOf(subscribers, id) == CHOOSE i \in 1..Len(subscribers) : subscribers[i].id = id

\* a list in place of a Map: every set adds an entry
MapSetAppend(subscribers, sub) == Append(subscribers, sub)

\* Map.set: an existing key keeps its place, a new key goes last
MapSet(subscribers, sub) ==
    IF sub.id \in Keys(subscribers)
    THEN [subscribers EXCEPT ![IndexOf(subscribers, sub.id)] = sub]
    ELSE Append(subscribers, sub)

\* Map.clear in place of Map.delete
MapDeleteAll(subscribers, id) == <<>>

\* Map.delete
MapDelete(subscribers, id) == SelectSeq(subscribers, LAMBDA s : s.id # id)

\* -------------------------------------------------------------------- flush
\* a flush that emits nothing and leaves the queue as it is
flushNoDrain(sub) == [sub |-> sub, emits |-> <<>>, delivered |-> 0]

flush(sub) ==
    LET d == drain(sub.queue, DrainBatch)
    IN  [sub       |-> [sub EXCEPT !.queue = d.queue],
         emits     |-> [k \in 1..Len(d.batch) |->
                           EventMessage(sub.id, d.batch[k].topic, d.batch[k].message)],
         delivered |-> Len(d.batch)]

\* one pass of the body shared by the publish loop and the replay loop:
\* pushDropOldest, account the drop, flush
\* a pass that leaves out the flush
EnqueueNoFlush(topic, i, name, message) ==
    LET p == pushDropOldest(topic.subscribers[i].queue, [topic |-> name, message |-> message])
    IN  [topic |-> [topic EXCEPT !.subscribers[i].queue = p.queue,
                                 !.stats.dropped = @ + p.dropped],
         emits |-> <<>>]

Enqueue(topic, i, name, message) ==
    LET p == pushDropOldest(topic.subscribers[i].queue, [topic |-> name, message |-> message])
        f == flush([topic.subscribers[i] EXCEPT !.queue = p.queue])
    IN  [topic |-> [topic EXCEPT !.subscribers[i] = f.sub,
                                 !.stats.dropped = @ + p.dropped,
                                 !.stats.delivered = @ + f.delivered],
         emits |-> f.emits]

\* ------------------------------------------------------------------ publish
\* a loop that returns after its first pass
FanOutFirstOnly(topic, name, message, i) ==
    IF i > Len(topic.subscribers)
    THEN [topic |-> topic, emits |-> <<>>]
    ELSE Enqueue(topic, i, name, message)

RECURSIVE FanOut(_, _, _, _)
FanOut(topic, name, message, i) ==
    IF i > Len(topic.subscribers)
    THEN [topic |-> topic, emits |-> <<>>]
    ELSE LET e == Enqueue(topic, i, name, message)
             r == FanOut(e.topic, name, message, i + 1)
         IN  [topic |-> r.topic, emits |-> e.emits \o r.emits]

\* a fan-out that also reaches a socket subscribed to another topic only
publishLeak(tps, name, message) ==
    IF name \notin DOMAIN tps
    THEN [ok |-> FALSE, topics |-> tps, emits |-> <<>>]
    ELSE LET t0 == [tps[name] EXCEPT !.stats.messages = @ + 1,
                                     !.ring = append(@, message)]
             r  == FanOut(t0, name, message, 1)
             others == {s \in Sockets : \E n \in DOMAIN tps \ {name} :
                                            s \in Keys(tps[n].subscribers)}
                          \ Keys(tps[name].subscribers)
             leak == IF others = {} THEN <<>>
                     ELSE <<EventMessage(CHOOSE s \in others : TRUE, name, message)>>
         IN  [ok |-> TRUE, topics |-> [tps EXCEPT ![name] = r.topic],
              emits |-> r.emits \o leak]

\* a lookup that makes the topic it does not find
publishAutoCreate(tps, name, message) ==
    LET all == [n \in DOMAIN tps \cup {name} |->
                   IF n \in DOMAIN tps THEN tps[n] ELSE Topic(name)]
        t0  == [all[name] EXCEPT !.stats.messages = @ + 1,
                                 !.ring = append(@, message)]
        r   == FanOut(t0, name, message, 1)
    IN  [ok |-> TRUE, topics |-> [all EXCEPT ![name] = r.topic], emits |-> r.emits]

publish(tps, name, message) ==
    IF name \notin DOMAIN tps
    THEN [ok |-> FALSE, topics |-> tps, emits |-> <<>>]
    ELSE LET t0 == [tps[name] EXCEPT !.stats.messages = @ + 1,
                                     !.ring = append(@, message)]
             r  == FanOut(t0, name, message, 1)
         IN  [ok |-> TRUE, topics |-> [tps EXCEPT ![name] = r.topic], emits |-> r.emits]

\* ---------------------------------------------------------------- subscribe
RECURSIVE Replay(_, _, _, _, _)
Replay(topic, i, name, toSend, k) ==
    IF k > Len(toSend)
    THEN [topic |-> topic, emits |-> <<>>]
    ELSE LET e == Enqueue(topic, i, name, toSend[k])
             r == Replay(e.topic, i, name, toSend, k + 1)
         IN  [topic |-> r.topic, emits |-> e.emits \o r.emits]

\* `lastN && lastN > 0`
WantsReplay(lastN) == lastN # None /\ lastN[1] > 0

\* a subscribe that, given no last_n, replays all the ring holds
subscribeReplayAll(tps, id, name, lastN, rid) ==
    IF name \notin DOMAIN tps
    THEN [topics |-> tps, emits |-> <<ErrorMessage(id, "TOPIC_NOT_FOUND", IfTruthy(rid))>>]
    ELSE LET subs == MapSet(tps[name].subscribers, Subscriber(id))
             t0   == [tps[name] EXCEPT !.subscribers = subs,
                                       !.stats.subscribers = Len(subs)]
             ack  == AckMessage(id, name, IfTruthy(rid))
             n    == IF WantsReplay(lastN) THEN lastN[1] ELSE t0.ring.capacity
             r    == Replay(t0, IndexOf(subs, id), name, last(t0.ring, n), 1)
         IN  [topics |-> [tps EXCEPT ![name] = r.topic], emits |-> <<ack>> \o r.emits]

\* a subscribe that installs the subscriber in a record with new stats
subscribeNewStats(tps, id, name, lastN, rid) ==
    IF name \notin DOMAIN tps
    THEN [topics |-> tps, emits |-> <<ErrorMessage(id, "TOPIC_NOT_FOUND", IfTruthy(rid))>>]
    ELSE LET subs == MapSet(tps[name].subscribers, Subscriber(id))
             t0   == [tps[name] EXCEPT !.subscribers = subs,
                                       !.stats = [Topic(name).stats EXCEPT
                                                     !.subscribers = Len(subs)]]
             ack  == AckMessage(id, name, IfTruthy(rid))
             r    == IF WantsReplay(lastN)
                     THEN Replay(t0, IndexOf(subs, id), name, last(t0.ring, lastN[1]), 1)
                     ELSE [topic |-> t0, emits |-> <<>>]
         IN  [topics |-> [tps EXCEPT ![name] = r.topic], emits |-> <<ack>> \o r.emits]

\* a subscribe that emits its ack after the replay
subscribeAckLast(tps, id, name, lastN, rid) ==
    IF name \notin DOMAIN tps
    THEN [topics |-> tps, emits |-> <<ErrorMessage(id, "TOPIC_NOT_FOUND", IfTruthy(rid))>>]
    ELSE LET subs == MapSet(tps[name].subscribers, Subscriber(id))
             t0   == [tps[name] EXCEPT !.subscribers = subs,
                                       !.stats.subscribers = Len(subs)]
             ack  == AckMessage(id, name, IfTruthy(rid))
             r    == IF WantsReplay(lastN)
                     THEN Replay(t0, IndexOf(subs, id), name, last(t0.ring, lastN[1]), 1)
                     ELSE [topic |-> t0, emits |-> <<>>]
         IN  [topics |-> [tps EXCEPT ![name] = r.topic], emits |-> r.emits \o <<ack>>]

subscribe(tps, id, name, lastN, rid) ==
    IF name \notin DOMAIN tps
    THEN [topics |-> tps, emits |-> <<ErrorMessage(id, "TOPIC_NOT_FOUND", IfTruthy(rid))>>]
    ELSE LET subs == MapSet(tps[name].subscribers, Subscriber(id))
             t0   == [tps[name] EXCEPT !.subscribers = subs,
                                       !.stats.subscribers = Len(subs)]
             ack  == AckMessage(id, name, IfTruthy(rid))
             r    == IF WantsReplay(lastN)
                     THEN Replay(t0, IndexOf(subs, id), name, last(t0.ring, lastN[1]), 1)
                     ELSE [topic |-> t0, emits |-> <<>>]
         IN  [topics |-> [tps EXCEPT ![name] = r.topic], emits |-> <<ack>> \o r.emits]

\* -------------------------------------------------------------- unsubscribe
\* an unsubscribe that acks whether or not the topic exists
unsubscribeAck(tps, id, name, rid) ==
    IF name \notin DOMAIN tps
    THEN [topics |-> tps, emits |-> <<AckMessage(id, name, IfTruthy(rid))>>]
    ELSE LET subs == MapDelete(tps[name].subscribers, id)
         IN  [topics |-> [tps EXCEPT ![name].subscribers = subs,
                                     ![name].stats.subscribers = Len(subs)],
              emits  |-> <<AckMessage(id, name, IfTruthy(rid))>>]

\* an unsubscribe that refuses a socket with no entry in the table
unsubscribeStrict(tps, id, name, rid) ==
    IF name \notin DOMAIN tps
    THEN [topics |-> tps, emits |-> <<ErrorMessage(id, "TOPIC_NOT_FOUND", IfTruthy(rid))>>]
    ELSE IF id \notin Keys(tps[name].subscribers)
    THEN [topics |-> tps, emits |-> <<ErrorMessage(id, "BAD_REQUEST", IfTruthy(rid))>>]
    ELSE LET subs == MapDelete(tps[name].subscribers, id)
         IN  [topics |-> [tps EXCEPT ![name].subscribers = subs,
                                     ![name].stats.subscribers = Len(subs)],
              emits  |-> <<AckMessage(id, name, IfTruthy(rid))>>]

unsubscribe(tps, id, name, rid) ==
    IF name \notin DOMAIN tps
    THEN [topics |-> tps, emits |-> <<ErrorMessage(id, "TOPIC_NOT_FOUND", IfTruthy(rid))>>]
    ELSE LET subs == MapDelete(tps[name].subscribers, id)
         IN  [topics |-> [tps EXCEPT ![name].subscribers = subs,
                                     ![name].stats.subscribers = Len(subs)],
              emits  |-> <<AckMessage(id, name, IfTruthy(rid))>>]

\* --------------------------------------------------- handleSocketDisconnect
\* a disconnect that leaves stats.subscribers as it was
handleSocketDisconnectNoCount(tps, id) ==
    [n \in DOMAIN tps |-> [tps[n] EXCEPT !.subscribers = MapDelete(@, id)]]

\* a disconnect whose loop stops at the first table that held the socket
handleSocketDisconnectFirst(tps, id) ==
    LET has == {n \in DOMAIN tps : id \in Keys(tps[n].subscribers)}
    IN  IF has = {} THEN tps
        ELSE LET f    == CHOOSE n \in has : TRUE
                 subs == MapDelete(tps[f].subscribers, id)
             IN  [tps EXCEPT ![f].subscribers = subs, ![f].stats.subscribers = Len(subs)]

handleSocketDisconnect(tps, id) ==
    [n \in DOMAIN tps |->
        IF id \in Keys(tps[n].subscribers)
        THEN LET subs == MapDelete(tps[n].subscribers, id)
             IN  [tps[n] EXCEPT !.subscribers = subs, !.stats.subscribers = Len(subs)]
        ELSE tps[n]]

\* -------------------------------------------------------------- createTopic
\* a createTopic that reports the conflict after it has set the new record
createTopicReplace(tps, name) ==
    [ok |-> name \notin DOMAIN tps,
     topics |-> [n \in DOMAIN tps \cup {name} |->
                    IF n = name THEN Topic(name) ELSE tps[n]]]

createTopic(tps, name) ==
    IF name \in DOMAIN tps
    THEN [ok |-> FALSE, topics |-> tps]
    ELSE [ok |-> TRUE,
          topics |-> [n \in DOMAIN tps \cup {name} |->
                         IF n = name THEN Topic(name) ELSE tps[n]]]

\* a deleteTopic without its topics.delete(name)
RegistryDeleteNone(tps, name) == tps

\* a deleteTopic that empties the record's table and keeps the record
RegistryDeleteClear(tps, name) ==
    [tps EXCEPT ![name].subscribers = <<>>, ![name].stats.subscribers = 0]

\* topics.delete(name)
RegistryDelete(tps, name) == [n \in DOMAIN tps \ {name} |-> tps[n]]

\* ------------------------------------------------------------------ state
\* del: pc is the statement deleteTopic is at, name its argument, pending the
\* entries its iterator has yet to reach, sub the entry it is at, and captured
\* the keys of the table when the call began
Idle == [pc |-> "idle", name |-> "", sub |-> "", pending |-> <<>>, captured |-> {}]

Events(emits, id) == SelectSeq(emits, LAMBDA e : e.to = id /\ e.type = "event")

Subscribed(tps, name, id) == name \in DOMAIN tps /\ id \in Keys(tps[name].subscribers)

\* hist.mode says what a specification remembers:
\*   "off"   nothing;
\*   "pair"  prev: the subscribe or unsubscribe that ran last on an existing
\*           topic, with the subscriber table a subscribe found, and before:
\*           the handler that ran just before it when that was a subscribe or
\*           unsubscribe of the same socket on the same topic (an unsubscribe
\*           that follows such a subscribe keeps the table the subscribe found);
\*           replay says whether that subscribe asked for a replay;
\*           or the disconnect that ran last, with member: the topics whose
\*           table held the socket when it began (kept to the end of the
\*           deleteTopic whose loop ran it);
\*           or the publish that ran last, with before = "resubscribe" and
\*           the socket when the handler before it was a subscribe without
\*           replay of a socket the table already held;
\*   "sole"  sole: topic name -> "none" (no record), "fresh" (record created,
\*           no subscribe and no publish yet), a socket.id (that socket
\*           subscribed without replay to the fresh record, has been its only
\*           subscriber since and was never removed), or "broken" (any other
\*           past)
\* no setInterval has been called; no queue or ring is driven on its own
NoTimer == [handle |-> <<>>, live |-> {}, made |-> 0, stopped |-> FALSE, streak |-> 0]
NoUnit == [kind |-> "none"]

NoPrev == [op |-> "", id |-> "", name |-> "", table |-> <<>>, before |-> "", member |-> {},
           replay |-> FALSE]
NoSole == [n \in TopicNames |-> "none"]
NoHistory == [mode |-> "off", prev |-> NoPrev, sole |-> NoSole]

\* hist after the handler kind has run for socket id on topic name from the
\* registry topics
History(kind, id, name, lastN) ==
    IF hist.mode = "pair"
    THEN [hist EXCEPT !.prev =
            IF kind \in {"subscribe", "unsubscribe"} /\ name \in DOMAIN topics
            THEN LET same == hist.prev.id = id /\ hist.prev.name = name
                 IN  [op |-> kind, id |-> id, name |-> name,
                      table |-> IF kind = "subscribe" THEN topics[name].subscribers
                                ELSE IF same /\ hist.prev.op = "subscribe"
                                     THEN hist.prev.table ELSE <<>>,
                      before |-> IF same THEN hist.prev.op ELSE "",
                      member |-> {},
                      replay |-> kind = "subscribe" /\ WantsReplay(lastN)]
            ELSE IF kind = "disconnect"
            THEN [NoPrev EXCEPT !.op = kind, !.id = id,
                                !.member = {n \in DOMAIN topics :
                                               id \in Keys(topics[n].subscribers)}]
            ELSE IF kind = "publish" /\ name \in DOMAIN topics
            THEN IF /\ hist.prev.op = "subscribe" /\ hist.prev.name = name
                    /\ hist.prev.id \in Keys(hist.prev.table) /\ ~hist.prev.replay
                 THEN [NoPrev EXCEPT !.op = kind, !.id = hist.prev.id, !.name = name,
                                     !.before = "resubscribe"]
                 ELSE [NoPrev EXCEPT !.op = kind, !.name = name]
            ELSE IF kind = "deleteTopic"
            THEN hist.prev
            ELSE NoPrev]
    ELSE IF hist.mode = "sole"
    THEN [hist EXCEPT !.sole = [n \in TopicNames |->
            LET was == hist.sole[n]
            IN  CASE kind = "createTopic" /\ n = name /\ name \notin DOMAIN topics -> "fresh"
                  [] kind = "deleteTopic" /\ n = name -> "none"
                  [] kind = "subscribe" /\ n = name /\ name \in DOMAIN topics ->
                        IF was = "fresh" /\ lastN \in {<<>>, <<0>>} THEN id ELSE "broken"
                  [] kind = "unsubscribe" /\ n = name /\ was = id -> "broken"
                  [] kind = "publish" /\ n = name /\ was = "fresh" -> "broken"
                  [] kind = "disconnect" /\ was = id -> "broken"
                  [] OTHER -> was]]
    ELSE hist

\* lastEvent after a handler that leaves the registry as tps and whose publish
\* loop emitted emits
Track(tps, emits) ==
    [k \in TopicNames \X Sockets |->
        IF ~ordering \/ ~Subscribed(tps, k[1], k[2]) THEN 0
        ELSE LET evs == SelectSeq(Events(emits, k[2]), LAMBDA e : e.topic = k[1])
             IN  IF evs = <<>> THEN lastEvent[k] ELSE evs[Len(evs)].id]

Init ==
    /\ opts \in Configs
    /\ topics = [n \in {} |-> 0]
    /\ sockets = [id \in Sockets |-> "open"]
    /\ op = "init"
    /\ out = <<>>
    /\ del = Idle
    /\ published = 0
    /\ accepted = [n \in TopicNames |-> <<>>]
    /\ deleted = {}
    /\ ordering = FALSE
    /\ lastEvent = [k \in TopicNames \X Sockets |-> 0]
    /\ hist = NoHistory
    /\ timer = NoTimer
    /\ unit = NoUnit

\* app.post("/topics")
CreateTopic(name) ==
    /\ del.pc = "idle"
    /\ \E r \in {createTopic(topics, name)} :
           /\ topics' = r.topics
           /\ out' = IF r.ok THEN <<HttpResponse(201, "created", name)>>
                             ELSE <<HttpResponse(409, "conflict", name)>>
           /\ deleted' = IF r.ok THEN deleted \ {name} ELSE deleted
    /\ op' = "createTopic"
    /\ hist' = History("createTopic", "", name, None)
    /\ UNCHANGED <<opts, sockets, del, published, accepted, ordering, lastEvent,
                   timer, unit>>

\* socket.on("message") case "subscribe"
Subscribe(id, name, lastN, rid) ==
    /\ del.pc = "idle"
    /\ sockets[id] = "open"
    /\ \E r \in {subscribe(topics, id, name, lastN, rid)} :
           /\ name \in DOMAIN r.topics => r.topics[name].stats.delivered <= MaxDelivered
           /\ topics' = r.topics
           /\ out' = r.emits
           /\ lastEvent' = Track(r.topics, <<>>)
    /\ op' = "subscribe"
    /\ hist' = History("subscribe", id, name, lastN)
    /\ UNCHANGED <<opts, sockets, del, published, accepted, deleted, ordering,
                   timer, unit>>

\* socket.on("message") case "unsubscribe"
Unsubscribe(id, name, rid) ==
    /\ del.pc = "idle"
    /\ sockets[id] = "open"
    /\ \E r \in {unsubscribe(topics, id, name, rid)} :
           /\ topics' = r.topics
           /\ out' = r.emits
           /\ lastEvent' = Track(r.topics, <<>>)
    /\ op' = "unsubscribe"
    /\ hist' = History("unsubscribe", id, name, None)
    /\ UNCHANGED <<opts, sockets, del, published, accepted, deleted, ordering,
                   timer, unit>>

\* a publish handler that first enters the publishing socket in the table
PublishJoins(id, name, rid) ==
    /\ del.pc = "idle"
    /\ sockets[id] = "open"
    /\ \E r \in {publish(subscribe(topics, id, name, None, rid).topics, name, published + 1)} :
           /\ r.ok => /\ published < MaxPublishes
                       /\ r.topics[name].stats.delivered <= MaxDelivered
           /\ topics' = r.topics
           /\ out' = Append(r.emits, IF r.ok THEN AckMessage(id, name, rid)
                                             ELSE ErrorMessage(id, "TOPIC_NOT_FOUND", rid))
           /\ lastEvent' = Track(r.topics, r.emits)
           /\ published' = IF r.ok THEN published + 1 ELSE published
           /\ accepted' = IF r.ok THEN [accepted EXCEPT ![name] = Append(@, published + 1)]
                                   ELSE accepted
    /\ op' = "publish"
    /\ hist' = History("publish", id, name, None)
    /\ UNCHANGED <<opts, sockets, del, deleted, ordering,
                   timer, unit>>

\* socket.on("message") case "publish"
Publish(id, name, rid) ==
    /\ del.pc = "idle"
    /\ sockets[id] = "open"
    /\ \E r \in {publish(topics, name, published + 1)} :
           /\ r.ok => /\ published < MaxPublishes
                       /\ r.topics[name].stats.delivered <= MaxDelivered
           /\ topics' = r.topics
           /\ out' = Append(r.emits, IF r.ok THEN AckMessage(id, name, rid)
                                             ELSE ErrorMessage(id, "TOPIC_NOT_FOUND", rid))
           /\ lastEvent' = Track(r.topics, r.emits)
           /\ published' = IF r.ok THEN published + 1 ELSE published
           /\ accepted' = IF r.ok THEN [accepted EXCEPT ![name] = Append(@, published + 1)]
                                   ELSE accepted
    /\ op' = "publish"
    /\ hist' = History("publish", id, name, None)
    /\ UNCHANGED <<opts, sockets, del, deleted, ordering,
                   timer, unit>>

\* socket.on("disconnect") after the client or the transport closed the socket
Disconnect(id) ==
    /\ del.pc = "idle"
    /\ sockets[id] = "open"
    /\ sockets' = [sockets EXCEPT ![id] = "closed"]
    /\ topics' = handleSocketDisconnect(topics, id)
    /\ out' = <<>>
    /\ lastEvent' = Track(topics', <<>>)
    /\ op' = "disconnect"
    /\ hist' = History("disconnect", id, "", None)
    /\ UNCHANGED <<opts, del, published, accepted, deleted, ordering,
                   timer, unit>>

\* app.delete("/topics/:name"): deleteTopic up to the start of its loop
DeleteTopic(name) ==
    /\ del.pc = "idle"
    /\ IF name \notin DOMAIN topics
       THEN /\ out' = <<HttpResponse(404, "not_found", name)>>
            /\ del' = del
       ELSE /\ out' = <<>>
            /\ del' = [pc |-> "loop", name |-> name, sub |-> "",
                       pending |-> KeyList(topics[name].subscribers),
                       captured |-> Keys(topics[name].subscribers)]
    /\ op' = "deleteTopic"
    /\ hist' = History("lookup", "", name, None)
    /\ UNCHANGED <<opts, topics, sockets, published, accepted, deleted, ordering, lastEvent,
                   timer, unit>>

\* the Map iterator of `for (const sub of topic.subscribers.values())`:
\* entries deleted while the loop runs are not visited
Unvisited == SelectSeq(del.pending, LAMBDA id : id \in Keys(topics[del.name].subscribers))

\* sub.socket.emit("message", info)
DeleteEmit ==
    /\ del.pc = "loop"
    /\ Unvisited # <<>>
    /\ out' = Append(out, InfoMessage(Head(Unvisited), del.name, "topic_deleted"))
    /\ del' = [del EXCEPT !.pc = "disconnect", !.sub = Head(Unvisited),
                          !.pending = Tail(Unvisited)]
    /\ UNCHANGED <<opts, topics, sockets, op, published, accepted, deleted, ordering,
                   lastEvent, hist,
                   timer, unit>>

\* a deleteTopic that ends the subscription and leaves the connection open
DeleteUnsubscribe ==
    /\ del.pc = "disconnect"
    /\ topics' = unsubscribe(topics, del.sub, del.name, None).topics
    /\ lastEvent' = Track(topics', <<>>)
    /\ del' = [del EXCEPT !.pc = "loop"]
    /\ hist' = History("disconnect", del.sub, "", None)
    /\ UNCHANGED <<opts, sockets, op, out, published, accepted, deleted, ordering,
                   timer, unit>>

\* sub.socket.disconnect(true), which runs the socket's "disconnect" handler
DeleteDisconnect ==
    /\ del.pc = "disconnect"
    /\ IF sockets[del.sub] = "open"
       THEN /\ sockets' = [sockets EXCEPT ![del.sub] = "closed"]
            /\ topics' = handleSocketDisconnect(topics, del.sub)
       ELSE UNCHANGED <<sockets, topics>>
    /\ lastEvent' = Track(topics', <<>>)
    /\ del' = [del EXCEPT !.pc = "loop"]
    /\ hist' = History("disconnect", del.sub, "", None)
    /\ UNCHANGED <<opts, op, out, published, accepted, deleted, ordering,
                   timer, unit>>

\* this.topics.delete(name); return { ok: true }; res.json({status: "deleted"})
DeleteFinish ==
    /\ del.pc = "loop"
    /\ Unvisited = <<>>
    /\ topics' = RegistryDelete(topics, del.name)
    /\ out' = Append(out, HttpResponse(200, "deleted", del.name))
    /\ lastEvent' = Track(topics', <<>>)
    /\ accepted' = [accepted EXCEPT ![del.name] = <<>>]
    /\ deleted' = deleted \cup {del.name}
    /\ del' = Idle
    /\ hist' = History("deleteTopic", "", del.name, None)
    /\ UNCHANGED <<opts, sockets, op, published, ordering,
                   timer, unit>>

Next ==
    \/ \E name \in TopicNames : CreateTopic(name)
    \/ \E id \in Sockets, name \in TopicNames, lastN \in LastNs, rid \in NoRequestId :
          Subscribe(id, name, lastN, rid)
    \/ \E id \in Sockets, name \in TopicNames, rid \in NoRequestId :
          Unsubscribe(id, name, rid)
    \/ \E id \in Sockets, name \in TopicNames, rid \in NoRequestId :
          Publish(id, name, rid)
    \/ \E id \in Sockets : Disconnect(id)
    \/ \E name \in TopicNames : DeleteTopic(name)
    \/ DeleteEmit
    \/ DeleteDisconnect
    \/ DeleteFinish

Spec == Init /\ [][Next]_vars

\* the same handlers with lastEvent recorded and no subscribe that replays
InitOrder ==
    /\ opts \in Configs
    /\ topics = [n \in {} |-> 0]
    /\ sockets = [id \in Sockets |-> "open"]
    /\ op = "init"
    /\ out = <<>>
    /\ del = Idle
    /\ published = 0
    /\ accepted = [n \in TopicNames |-> <<>>]
    /\ deleted = {}
    /\ ordering = TRUE
    /\ lastEvent = [k \in TopicNames \X Sockets |-> 0]
    /\ hist = NoHistory
    /\ timer = NoTimer
    /\ unit = NoUnit

NextOrder ==
    \/ \E name \in TopicNames : CreateTopic(name)
    \/ \E id \in Sockets, name \in TopicNames, lastN \in NoReplay, rid \in NoRequestId :
          Subscribe(id, name, lastN, rid)
    \/ \E id \in Sockets, name \in TopicNames, rid \in NoRequestId :
          Unsubscribe(id, name, rid)
    \/ \E id \in Sockets, name \in TopicNames, rid \in NoRequestId :
          Publish(id, name, rid)
    \/ \E id \in Sockets : Disconnect(id)
    \/ \E name \in TopicNames : DeleteTopic(name)
    \/ DeleteEmit
    \/ DeleteDisconnect
    \/ DeleteFinish

SpecOrder == InitOrder /\ [][NextOrder]_vars

\* ---------------------------------------------------------------- heartbeat
\* timer.handle is this.heartbeatTimer (absent, or the Timeout setInterval
\* returned, which is truthy), timer.live the intervals that still fire,
\* timer.made how many setInterval has made, timer.stopped whether stop() is
\* the latest of the start() and stop() calls, and timer.streak how many
\* start() calls in a row came last
clearInterval(live, handle) == IF handle # None THEN live \ {handle[1]} ELSE live

\* a start that sets the new interval and leaves the old one running
startNoClear(t) ==
    [handle  |-> Some(t.made + 1),
     live    |-> t.live \cup {t.made + 1},
     made    |-> t.made + 1,
     stopped |-> FALSE,
     streak  |-> IF t.stopped THEN 1 ELSE t.streak + 1]

start(t) ==
    [handle  |-> Some(t.made + 1),
     live    |-> clearInterval(t.live, t.handle) \cup {t.made + 1},
     made    |-> t.made + 1,
     stopped |-> FALSE,
     streak  |-> IF t.stopped THEN 1 ELSE t.streak + 1]

stop(t) == [t EXCEPT !.live = clearInterval(t.live, t.handle), !.stopped = TRUE]

\* io.sockets.sockets, the connected sockets in the order they connected
Connected == SelectSeq(<<"s1", "s2">>, LAMBDA id : sockets[id] = "open")

Start ==
    /\ del.pc = "idle"
    /\ timer.made < MaxStarts
    /\ timer' = start(timer)
    /\ op' = "start"
    /\ out' = <<>>
    /\ UNCHANGED <<opts, topics, sockets, del, published, accepted, deleted, ordering,
                   lastEvent, hist, unit>>

Stop ==
    /\ del.pc = "idle"
    /\ timer' = stop(timer)
    /\ op' = "stop"
    /\ out' = <<>>
    /\ UNCHANGED <<opts, topics, sockets, del, published, accepted, deleted, ordering,
                   lastEvent, hist, unit>>

\* the callback of interval k: io.sockets.sockets.forEach((s) => s.emit("message", msg))
Heartbeat(k) ==
    /\ del.pc = "idle"
    /\ k \in timer.live
    /\ op' = "heartbeat"
    /\ out' = [i \in 1..Len(Connected) |-> InfoMessage(Connected[i], "", "ping")]
    /\ UNCHANGED <<opts, topics, sockets, del, published, accepted, deleted, ordering,
                   lastEvent, hist, timer, unit>>

\* the handlers of SpecOrder with start, stop and the heartbeat
NextHeart ==
    \/ NextOrder
    \/ Start
    \/ Stop
    \/ \E k \in 1..MaxStarts : Heartbeat(k)

SpecHeart == Init /\ [][NextHeart]_vars

\* ------------------------------------------------- request ids, ping, default
\* socket.on("message") case "ping"
Ping(id, rid) ==
    /\ del.pc = "idle"
    /\ sockets[id] = "open"
    /\ op' = "ping"
    /\ out' = <<PongMessage(id, rid)>>
    /\ UNCHANGED <<opts, topics, sockets, del, published, accepted, deleted, ordering,
                   lastEvent, hist, timer, unit>>

\* a default branch that also disconnects the sender
UnknownClose(id, rid) ==
    /\ del.pc = "idle"
    /\ sockets[id] = "open"
    /\ op' = "unknown"
    /\ out' = <<ErrorMessage(id, "BAD_REQUEST", rid)>>
    /\ sockets' = [sockets EXCEPT ![id] = "closed"]
    /\ topics' = handleSocketDisconnect(topics, id)
    /\ UNCHANGED <<opts, del, published, accepted, deleted, ordering,
                   lastEvent, hist, timer, unit>>

\* socket.on("message") default: a type that is none of the four
Unknown(id, rid) ==
    /\ del.pc = "idle"
    /\ sockets[id] = "open"
    /\ op' = "unknown"
    /\ out' = <<ErrorMessage(id, "BAD_REQUEST", rid)>>
    /\ UNCHANGED <<opts, topics, sockets, del, published, accepted, deleted, ordering,
                   lastEvent, hist, timer, unit>>

\* the handlers with every kind of request id, and no subscribe that replays
NextReply ==
    \/ \E name \in TopicNames : CreateTopic(name)
    \/ \E id \in Sockets, name \in TopicNames, lastN \in NoReplay, rid \in RequestIds :
          Subscribe(id, name, lastN, rid)
    \/ \E id \in Sockets, name \in TopicNames, rid \in RequestIds :
          Unsubscribe(id, name, rid)
    \/ \E id \in Sockets, name \in TopicNames, rid \in RequestIds :
          Publish(id, name, rid)
    \/ \E id \in Sockets, rid \in RequestIds : Ping(id, rid)
    \/ \E id \in Sockets, rid \in RequestIds : Unknown(id, rid)
    \/ \E id \in Sockets : Disconnect(id)
    \/ \E name \in TopicNames : DeleteTopic(name)
    \/ DeleteEmit
    \/ DeleteDisconnect
    \/ DeleteFinish

SpecReply == Init /\ [][NextReply]_vars

\* every handler, with the last subscribe or unsubscribe remembered
InitPair ==
    /\ opts \in Configs
    /\ topics = [n \in {} |-> 0]
    /\ sockets = [id \in Sockets |-> "open"]
    /\ op = "init"
    /\ out = <<>>
    /\ del = Idle
    /\ published = 0
    /\ accepted = [n \in TopicNames |-> <<>>]
    /\ deleted = {}
    /\ ordering = FALSE
    /\ lastEvent = [k \in TopicNames \X Sockets |-> 0]
    /\ hist = [NoHistory EXCEPT !.mode = "pair"]
    /\ timer = NoTimer
    /\ unit = NoUnit

SpecPair == InitPair /\ [][Next]_vars

\* every handler, for the queue capacities at which a push finds the queue
\* full (0) and at which two publishes exceed the capacity (1), with the sole
\* subscriber of each topic remembered
QueueConfigs == {[ringBufferSize |-> 2, subscriberQueueSize |-> q] : q \in {0, 1}}

InitQueue ==
    /\ opts \in QueueConfigs
    /\ topics = [n \in {} |-> 0]
    /\ sockets = [id \in Sockets |-> "open"]
    /\ op = "init"
    /\ out = <<>>
    /\ del = Idle
    /\ published = 0
    /\ accepted = [n \in TopicNames |-> <<>>]
    /\ deleted = {}
    /\ ordering = FALSE
    /\ lastEvent = [k \in TopicNames \X Sockets |-> 0]
    /\ hist = [NoHistory EXCEPT !.mode = "sole"]
    /\ timer = NoTimer
    /\ unit = NoUnit

SpecQueue == InitQueue /\ [][Next]_vars

\* --------------------------------------- BoundedQueue and RingBuffer alone
\* one BoundedQueue of any capacity, driven by its two methods: unit.next is
\* the next item to push, unit.dropped what the last pushDropOldest returned,
\* unit.batch what the last drain returned
InitQueueUnit ==
    /\ opts \in Configs
    /\ topics = [n \in {} |-> 0]
    /\ sockets = [id \in Sockets |-> "open"]
    /\ op = "init"
    /\ out = <<>>
    /\ del = Idle
    /\ published = 0
    /\ accepted = [n \in TopicNames |-> <<>>]
    /\ deleted = {}
    /\ ordering = FALSE
    /\ lastEvent = [k \in TopicNames \X Sockets |-> 0]
    /\ hist = NoHistory
    /\ timer = NoTimer
    /\ unit \in {[kind |-> "queue", queue |-> BoundedQueue(q), next |-> 1,
                  dropped |-> 0, batch |-> <<>>] : q \in 0..MaxCapacity}

QueuePush ==
    /\ unit.kind = "queue"
    /\ unit.next <= MaxPushes
    /\ \E r \in {pushDropOldest(unit.queue, unit.next)} :
           unit' = [unit EXCEPT !.queue = r.queue, !.next = @ + 1,
                                !.dropped = r.dropped, !.batch = <<>>]
    /\ op' = "pushDropOldest"
    /\ UNCHANGED <<opts, topics, sockets, out, del, published, accepted, deleted, ordering,
                   lastEvent, hist, timer>>

QueueDrain(max) ==
    /\ unit.kind = "queue"
    /\ \E r \in {drain(unit.queue, max)} :
           unit' = [unit EXCEPT !.queue = r.queue, !.dropped = 0, !.batch = r.batch]
    /\ op' = "drain"
    /\ UNCHANGED <<opts, topics, sockets, out, del, published, accepted, deleted, ordering,
                   lastEvent, hist, timer>>

NextQueueUnit ==
    \/ QueuePush
    \/ \E max \in 0..(MaxCapacity + 1) : QueueDrain(max)

SpecQueueUnit == InitQueueUnit /\ [][NextQueueUnit]_vars

\* one RingBuffer of any capacity, driven by its two methods: unit.appended is
\* the list of the values appended so far, unit.n and unit.result the argument
\* and the result of the last call of last
RingValues == {1, 2}

InitRingUnit ==
    /\ opts \in Configs
    /\ topics = [n \in {} |-> 0]
    /\ sockets = [id \in Sockets |-> "open"]
    /\ op = "init"
    /\ out = <<>>
    /\ del = Idle
    /\ published = 0
    /\ accepted = [n \in TopicNames |-> <<>>]
    /\ deleted = {}
    /\ ordering = FALSE
    /\ lastEvent = [k \in TopicNames \X Sockets |-> 0]
    /\ hist = NoHistory
    /\ timer = NoTimer
    /\ unit \in {[kind |-> "ring", ring |-> RingBuffer(r), appended |-> <<>>,
                  n |-> 0, result |-> <<>>] : r \in 0..MaxCapacity}

RingAppend(value) ==
    /\ unit.kind = "ring"
    /\ Len(unit.appended) < MaxAppends
    /\ unit' = [unit EXCEPT !.ring = append(unit.ring, value),
                            !.appended = Append(@, value),
                            !.n = 0, !.result = <<>>]
    /\ op' = "append"
    /\ UNCHANGED <<opts, topics, sockets, out, del, published, accepted, deleted, ordering,
                   lastEvent, hist, timer>>

RingLast(n) ==
    /\ unit.kind = "ring"
    /\ unit' = [unit EXCEPT !.n = n, !.result = last(unit.ring, n)]
    /\ op' = "last"
    /\ UNCHANGED <<opts, topics, sockets, out, del, published, accepted, deleted, ordering,
                   lastEvent, hist, timer>>

NextRingUnit ==
    \/ \E value \in RingValues : RingAppend(value)
    \/ \E n \in 0..(MaxCapacity + 1) : RingLast(n)

SpecRingUnit == InitRingUnit /\ [][NextRingUnit]_vars

\* ------------------------------------------------------------------ claims
EventsOn(emits, id, name) == SelectSeq(Events(emits, id), LAMBDA e : e.topic = name)
Ids(emits) == [k \in 1..Len(emits) |-> emits[k].id]
Increasing(ids) == \A i \in 1..(Len(ids) - 1) : ids[i] < ids[i + 1]
LastOf(seq, n) == SubSeq(seq, Len(seq) - n + 1, Len(seq))
NotFound(id) == <<ErrorMessage(id, "TOPIC_NOT_FOUND", None)>>

\* C1: a publish accepted on a topic sends every socket that is in the topic's
\* subscriber table when the publish is processed exactly one event envelope,
\* and that envelope carries the publish's topic and payload.
C1_FanOut ==
    [][\A id \in Sockets, name \in TopicNames, rid \in NoRequestId :
          (op' = "publish" /\ name \in DOMAIN topics /\ Publish(id, name, rid)) =>
             \A s \in Keys(topics[name].subscribers) :
                Events(out', s) = <<EventMessage(s, name, published + 1)>>]_vars

\* a publish has been fanned out to two subscribers and acked
C1_Witness ==
    /\ op = "publish"
    /\ Len(out) = 3
    /\ out[1].type = "event" /\ out[2].type = "event" /\ out[3].type = "ack"
    /\ out[1].to # out[2].to
    /\ out[1].id = out[2].id /\ out[1].topic = out[3].topic

\* C2: for a socket that stays in a topic's table, the events publish emits to
\* it for the topic carry strictly increasing message ids, that is, they are
\* emitted in the order the broker processed the publishes, whoever sent them.
C2_Order ==
    [][\A id \in Sockets, name \in TopicNames, rid \in NoRequestId :
          (op' = "publish" /\ Publish(id, name, rid)) =>
             \A s \in Sockets :
                Subscribed(topics, name, s) =>
                   Increasing(<<lastEvent[<<name, s>>]>> \o Ids(EventsOn(out', s, name)))]_vars

\* both sockets stayed subscribed to a topic across two publishes and got both
C2_Witness ==
    \E name \in DOMAIN topics :
       /\ accepted[name] = <<1, 2>>
       /\ \A s \in Sockets : lastEvent[<<name, s>>] = 2
       /\ topics[name].stats.delivered = 4

\* C3: a publish on a topic emits events for that topic only and only to
\* sockets in that topic's table, and an event a subscribe emits goes to the
\* subscribing socket for the topic it has just joined.
C3_Isolation ==
    [][\A i \in 1..Len(out') :
          out'[i].type = "event" =>
             /\ \A id \in Sockets, name \in TopicNames, rid \in NoRequestId :
                   (op' = "publish" /\ Publish(id, name, rid)) =>
                      /\ out'[i].topic = name
                      /\ Subscribed(topics, name, out'[i].to)
             /\ \A id \in Sockets, name \in TopicNames, lastN \in LastNs, rid \in NoRequestId :
                   (op' = "subscribe" /\ Subscribe(id, name, lastN, rid)) =>
                      /\ out'[i].topic = name /\ out'[i].to = id
                      /\ Subscribed(topics', name, id)]_vars

\* a publish reached a subscriber of its topic while a socket subscribed to
\* another topic only got nothing
C3_Witness ==
    /\ op = "publish"
    /\ Len(out) = 2 /\ out[1].type = "event"
    /\ \E s \in Sockets, u \in DOMAIN topics :
          /\ u # out[1].topic
          /\ Subscribed(topics, u, s)
          /\ ~Subscribed(topics, out[1].topic, s)
          /\ Events(out, s) = <<>>

\* C4: a subscribe with last_n > 0 on an existing topic emits the ack and then,
\* to the subscribing socket only, min(last_n, payloads the ring retains)
\* events: the most recently accepted payloads of the topic, oldest first.
C4_Replay ==
    [][\A id \in Sockets, name \in TopicNames, lastN \in LastNs, rid \in NoRequestId :
          (/\ op' = "subscribe"
           /\ name \in DOMAIN topics
           /\ lastN # None /\ lastN[1] > 0
           /\ Subscribe(id, name, lastN, rid)) =>
             LET retained == Min(Len(accepted[name]), opts.ringBufferSize)
                 n    == Min(lastN[1], retained)
                 want == LastOf(accepted[name], n)
             IN  out' = <<AckMessage(id, name, None)>>
                           \o [k \in 1..n |-> EventMessage(id, name, want[k])]]_vars

\* a subscribe replayed two payloads in publish order
C4_Witness ==
    /\ op = "subscribe"
    /\ Len(out) = 3
    /\ out[1].type = "ack" /\ out[2].type = "event" /\ out[3].type = "event"
    /\ out[2].id < out[3].id

\* C5: a subscribe with last_n absent or 0 emits no event and leaves nothing
\* queued for the socket, and every event a publish emits carries the payload
\* of that publish, so the socket is never sent a publish processed before it
\* subscribed.
C5_NoHistory ==
    [][/\ \A id \in Sockets, name \in TopicNames, lastN \in NoReplay, rid \in NoRequestId :
             (op' = "subscribe" /\ name \in DOMAIN topics /\ Subscribe(id, name, lastN, rid)) =>
                /\ out' = <<AckMessage(id, name, None)>>
                /\ \A i \in 1..Len(topics'[name].subscribers) :
                      topics'[name].subscribers[i].id = id =>
                         topics'[name].subscribers[i].queue.items = <<>>
       /\ \A id \in Sockets, name \in TopicNames, rid \in NoRequestId :
             (op' = "publish" /\ Publish(id, name, rid)) =>
                \A i \in 1..Len(out') :
                   out'[i].type = "event" => out'[i].id = published + 1]_vars

\* a socket has subscribed without replay to a topic whose ring holds payloads
C5_Witness ==
    /\ op = "subscribe"
    /\ Len(out) = 1 /\ out[1].type = "ack"
    /\ topics[out[1].topic].ring.count > 0
    /\ accepted[out[1].topic] # <<>>

\* C6: a subscribe, unsubscribe or publish that names a topic not in the
\* registry emits one error envelope with code TOPIC_NOT_FOUND to the
\* requesting socket, nothing else, and leaves the topic out of the registry.
C6_MissingTopic ==
    [][\A id \in Sockets, name \in TopicNames, lastN \in LastNs, rid \in NoRequestId :
          (/\ name \notin DOMAIN topics
           /\ \/ Subscribe(id, name, lastN, rid)
              \/ Unsubscribe(id, name, rid)
              \/ Publish(id, name, rid)) =>
             /\ out' = NotFound(id)
             /\ name \notin DOMAIN topics']_vars

\* an unsubscribe on a missing topic has been answered with the error
C6_Witness ==
    /\ op = "unsubscribe"
    /\ Len(out) = 1
    /\ out[1].type = "error" /\ out[1].info = "TOPIC_NOT_FOUND"

\* C7: a publish to a topic not in the registry leaves the registry, and with
\* it every counter, ring and subscriber queue, as it was.
C7_MissingPublishFrame ==
    [][\A id \in Sockets, name \in TopicNames, rid \in NoRequestId :
          (op' = "publish" /\ name \notin DOMAIN topics /\ Publish(id, name, rid)) =>
             topics' = topics]_vars

\* a publish to a missing topic was refused while another topic had a
\* subscriber and accepted publishes
C7_Witness ==
    /\ op = "publish"
    /\ Len(out) = 1 /\ out[1].type = "error"
    /\ \E n \in DOMAIN topics :
          topics[n].stats.messages > 0 /\ topics[n].subscribers # <<>>

\* C8: once deleteTopic has returned success for a name, the name is out of the
\* registry, and until createTopic makes it again every subscribe, unsubscribe
\* and publish on it is answered with TOPIC_NOT_FOUND.
C8_GoneAfterDelete ==
    [][/\ DeleteFinish => del.name \notin DOMAIN topics'
       /\ \A id \in Sockets, name \in deleted, lastN \in LastNs, rid \in NoRequestId :
             (\/ Subscribe(id, name, lastN, rid)
              \/ Unsubscribe(id, name, rid)
              \/ Publish(id, name, rid)) =>
                out' = NotFound(id)]_vars

\* a subscribe was refused after every topic name had been deleted
C8_Witness ==
    /\ op = "subscribe"
    /\ deleted = TopicNames
    /\ Len(out) = 1 /\ out[1].type = "error"

\* C9: deleteTopic on an existing topic emits one topic_deleted info envelope
\* naming the topic to each socket that was in its table when the call began,
\* closes each such socket after its notice, and neither notifies nor closes
\* any other socket.
C9_DeletePropagates ==
    [][/\ \A name \in TopicNames :
             (DeleteTopic(name) /\ name \in DOMAIN topics) =>
                del'.captured = Keys(topics[name].subscribers)
       /\ DeleteEmit =>
             /\ del'.sub \in del.captured
             /\ sockets[del'.sub] = "open"
       /\ DeleteDisconnect =>
             /\ \E i \in 1..Len(out) :
                   out[i] = InfoMessage(del.sub, del.name, "topic_deleted")
             /\ sockets' = [sockets EXCEPT ![del.sub] = "closed"]
       /\ DeleteFinish =>
             /\ \A s \in del.captured :
                   /\ Cardinality({i \in 1..Len(out) : out[i].to = s}) = 1
                   /\ sockets[s] = "closed"
             /\ \A i \in 1..Len(out) :
                   /\ out[i].to \in del.captured
                   /\ out[i] = InfoMessage(out[i].to, del.name, "topic_deleted")
             /\ sockets' = sockets]_vars

\* a delete has notified and closed the topic's one subscriber and left the
\* other socket open
C9_Witness ==
    /\ op = "deleteTopic" /\ del.pc = "idle"
    /\ Len(out) = 2
    /\ out[1].type = "info" /\ out[1].info = "topic_deleted"
    /\ out[2] = HttpResponse(200, "deleted", out[1].topic)
    /\ sockets[out[1].to] = "closed"
    /\ \E s \in Sockets : sockets[s] = "open"

\* C10: for every topic in the registry, stats.subscribers equals the number
\* of entries of the subscriber table, which holds each socket at most once.
C10_SubscribersCounter ==
    \A n \in DOMAIN topics :
       /\ topics[n].stats.subscribers = Len(topics[n].subscribers)
       /\ Cardinality(Keys(topics[n].subscribers)) = Len(topics[n].subscribers)

\* a disconnect has taken one of two subscribers, each of which had received
\* every publish, out of a topic's table
C10_Witness ==
    /\ op = "disconnect"
    /\ \E n \in DOMAIN topics :
          /\ topics[n].stats.subscribers = 1
          /\ topics[n].stats.messages > 0
          /\ topics[n].stats.delivered = 2 * topics[n].stats.messages

\* C11: at the end of every broker operation the outbound queue of every
\* subscriber of every topic holds at least 0 and at most subscriberQueueSize
\* items.
C11_QueueWithinCapacity ==
    \A n \in DOMAIN topics :
       \A i \in 1..Len(topics[n].subscribers) :
          /\ Len(topics[n].subscribers[i].queue.items) >= 0
          /\ Len(topics[n].subscribers[i].queue.items) <= opts.subscriberQueueSize

\* a publish has pushed onto a queue of capacity 0, which is full when empty
C11_Witness ==
    /\ opts.subscriberQueueSize = 0
    /\ op = "publish"
    /\ \E n \in DOMAIN topics :
          /\ topics[n].subscribers # <<>>
          /\ topics[n].stats.dropped > 0
          /\ topics[n].stats.delivered > 0

\* C12: an unsubscribe on an existing topic emits one ack to the requesting
\* socket whether or not the socket has an entry in the table; when it has
\* none, as in the second of two consecutive unsubscribes for the same socket
\* and topic, the registry (tables and counters) stays exactly as it was.
C12_UnsubscribeIdempotent ==
    [][\A id \in Sockets, name \in TopicNames, rid \in NoRequestId :
          (/\ op' = "unsubscribe"
           /\ name \in DOMAIN topics
           /\ Unsubscribe(id, name, rid)) =>
             /\ out' = <<AckMessage(id, name, None)>>
             /\ id \notin Keys(topics[name].subscribers) => topics' = topics
             /\ (/\ hist.prev.op = "unsubscribe" /\ hist.prev.id = id
                 /\ hist.prev.name = name) => topics' = topics]_vars

\* the second of two consecutive unsubscribes of a socket from a topic that
\* keeps another subscriber has been acked
C12_Witness ==
    /\ op = "unsubscribe"
    /\ hist.prev.op = "unsubscribe" /\ hist.prev.before = "unsubscribe"
    /\ out = <<AckMessage(hist.prev.id, hist.prev.name, None)>>
    /\ topics[hist.prev.name].stats.subscribers = 1

\* C13 as claimed: an unsubscribe that directly follows a subscribe of the
\* same socket on the same existing topic leaves the topic's subscriber table
\* exactly as the subscribe found it, whatever the table held.
C13_RoundTripAnyTable ==
    [][\A id \in Sockets, name \in TopicNames, rid \in NoRequestId :
          (/\ op' = "unsubscribe"
           /\ hist.prev.op = "subscribe" /\ hist.prev.id = id /\ hist.prev.name = name
           /\ Unsubscribe(id, name, rid)) =>
             topics'[name].subscribers = hist.prev.table]_vars

\* C13 amended: an unsubscribe that directly follows a subscribe of the same
\* socket on the same existing topic leaves the topic's subscriber table
\* exactly as the subscribe found it, provided the socket had no entry in the
\* table the subscribe found.
C13_RoundTrip ==
    [][\A id \in Sockets, name \in TopicNames, rid \in NoRequestId :
          (/\ op' = "unsubscribe"
           /\ hist.prev.op = "subscribe" /\ hist.prev.id = id /\ hist.prev.name = name
           /\ id \notin Keys(hist.prev.table)
           /\ Unsubscribe(id, name, rid)) =>
             topics'[name].subscribers = hist.prev.table]_vars

\* a socket has subscribed to and then unsubscribed from a topic whose table
\* held another socket and not this one
C13_Witness ==
    /\ op = "unsubscribe"
    /\ hist.prev.op = "unsubscribe" /\ hist.prev.before = "subscribe"
    /\ hist.prev.table # <<>>
    /\ hist.prev.id \notin Keys(hist.prev.table)
    /\ topics[hist.prev.name].subscribers = hist.prev.table

\* C14: once a topic whose only subscriber has been in its table since before
\* the first publish has accepted more publishes than subscriberQueueSize,
\* its stats show dropped > 0 and messages equal to the number of publishes
\* accepted.
C14_Backpressure ==
    \A n \in DOMAIN topics :
       (/\ hist.sole[n] \in Sockets
        /\ Len(accepted[n]) > opts.subscriberQueueSize) =>
          /\ topics[n].stats.dropped > 0
          /\ topics[n].stats.messages = Len(accepted[n])

\* C15: for a topic whose only subscriber joined without replay before the
\* first publish and was never removed, at the end of every broker operation
\* delivered + the items in that subscriber's queue + dropped = messages,
\* whatever subscriberQueueSize is.
C15_Accounting ==
    \A n \in DOMAIN topics :
       hist.sole[n] \in Sockets =>
          \A i \in 1..Len(topics[n].subscribers) :
             topics[n].stats.delivered + Len(topics[n].subscribers[i].queue.items)
                + topics[n].stats.dropped = topics[n].stats.messages

\* C16: createTopic on a name that is in the registry answers 409 conflict
\* and leaves the registry, and so the record's subscriber table, ring and
\* counters, exactly as it was.
C16_CreateConflict ==
    [][\A name \in TopicNames :
          (op' = "createTopic" /\ name \in DOMAIN topics /\ CreateTopic(name)) =>
             /\ out' = <<HttpResponse(409, "conflict", name)>>
             /\ topics' = topics]_vars

\* a createTopic was refused for a topic that has a subscriber, retained
\* payloads and counters above 0
C16_Witness ==
    /\ op = "createTopic"
    /\ Len(out) = 1 /\ out[1].id = 409
    /\ topics[out[1].topic].subscribers # <<>>
    /\ topics[out[1].topic].ring.count > 0
    /\ topics[out[1].topic].stats.delivered > 0

\* C17: a createTopic for a name that deleteTopic removed succeeds and makes a
\* record with an empty subscriber table, an empty ring and all counters 0,
\* and every event a subscribe replays carries a payload the topic's present
\* record accepted, never one published before the delete.
C17_NoResurrection ==
    [][/\ \A name \in deleted :
             (op' = "createTopic" /\ CreateTopic(name)) =>
                /\ out' = <<HttpResponse(201, "created", name)>>
                /\ topics'[name].subscribers = <<>>
                /\ topics'[name].ring.count = 0
                /\ topics'[name].stats =
                      [messages |-> 0, subscribers |-> 0, delivered |-> 0, dropped |-> 0]
       /\ \A i \in 1..Len(out') :
             out'[i].type = "event" =>
                \A id \in Sockets, name \in TopicNames, lastN \in LastNs, rid \in NoRequestId :
                   (op' = "subscribe" /\ Subscribe(id, name, lastN, rid)) =>
                      \E k \in 1..Len(accepted[name]) : accepted[name][k] = out'[i].id]_vars

\* a topic that had accepted a publish has been deleted and created again
\* (no other name was ever in the registry)
C17_Witness ==
    /\ op = "createTopic"
    /\ Len(out) = 1 /\ out[1].id = 201
    /\ published > 0
    /\ deleted = {}
    /\ DOMAIN topics = {out[1].topic}

\* C18: a publish leaves the keys of every subscriber table as they were, and
\* it emits an event to the publishing socket exactly when that socket is in
\* the published topic's table as the publish is processed; that event is the
\* one for this publish.
C18_PublisherEcho ==
    [][\A id \in Sockets, name \in TopicNames, rid \in NoRequestId :
          (op' = "publish" /\ Publish(id, name, rid)) =>
             /\ DOMAIN topics' = DOMAIN topics
             /\ \A n \in DOMAIN topics :
                   {topics'[n].subscribers[i].id : i \in 1..Len(topics'[n].subscribers)}
                      = {topics[n].subscribers[i].id : i \in 1..Len(topics[n].subscribers)}
             /\ IF /\ name \in DOMAIN topics
                   /\ \E i \in 1..Len(topics[name].subscribers) :
                         topics[name].subscribers[i].id = id
                THEN Events(out', id) = <<EventMessage(id, name, published + 1)>>
                ELSE Events(out', id) = <<>>]_vars

\* a socket that is the only subscriber of a topic has published on it and got
\* its own event and then the ack
C18_Witness ==
    /\ op = "publish"
    /\ Len(out) = 2
    /\ out[1].type = "event" /\ out[2].type = "ack"
    /\ out[1].to = out[2].to

\* the registry tps with socket id taken out of every subscriber table
Without(tps, id) ==
    [n \in DOMAIN tps |->
        LET rest == SelectSeq(tps[n].subscribers, LAMBDA e : e.id # id)
        IN  [tps[n] EXCEPT !.subscribers = rest, !.stats.subscribers = Len(rest)]]

\* C19: the disconnect of a socket, on its own or inside deleteTopic, takes
\* the socket out of every subscriber table, leaves every other entry, every
\* ring and the messages, delivered and dropped counters as they were and
\* emits nothing; and no handler emits an event to a socket that is closed.
C19_DisconnectFrame ==
    [][/\ \A id \in Sockets :
             (op' = "disconnect" /\ Disconnect(id)) =>
                /\ topics' = Without(topics, id)
                /\ out' = <<>>
       /\ (DeleteDisconnect /\ sockets[del.sub] = "open") =>
             /\ topics' = Without(topics, del.sub)
             /\ out' = out
       /\ \A i \in 1..Len(out') :
             out'[i].type = "event" => sockets[out'[i].to] = "open"]_vars

\* a socket that was in the table of both topics has disconnected, and each
\* topic keeps its other subscriber and its counters
C19_Witness ==
    /\ op = "disconnect"
    /\ hist.prev.op = "disconnect"
    /\ hist.prev.member = TopicNames
    /\ out = <<>>
    /\ \A n \in TopicNames :
          /\ topics[n].stats.subscribers = 1
          /\ topics[n].stats.delivered > 0
          /\ hist.prev.id \notin Keys(topics[n].subscribers)

\* C20: across every step of every handler, the messages, delivered and
\* dropped counters of a topic record that is in the registry before and
\* after the step do not decrease.
C20_CountersMonotonic ==
    [][\A n \in DOMAIN topics \cap DOMAIN topics' :
          /\ topics'[n].stats.messages >= topics[n].stats.messages
          /\ topics'[n].stats.delivered >= topics[n].stats.delivered
          /\ topics'[n].stats.dropped >= topics[n].stats.dropped]_vars

\* a record's three counters have each grown twice
C20_Witness ==
    \E n \in DOMAIN topics :
       /\ topics[n].stats.messages = 2
       /\ topics[n].stats.delivered >= 2
       /\ topics[n].stats.dropped >= 2

\* C21: while stop() is the latest of the start() and stop() calls, no
\* interval is left that could fire, and no heartbeat callback runs and emits a
\* ping info envelope, however many times start() was called before.
C21_NoHeartbeatAfterStop ==
    [][/\ timer.stopped => timer.live = {}
       /\ \A k \in 1..MaxStarts : Heartbeat(k) => ~timer.stopped
       /\ (\E i \in 1..Len(out') : out'[i].type = "info" /\ out'[i].info = "ping") =>
             ~timer.stopped]_vars

\* stop() has run after two start() calls in a row, with a socket connected
C21_Witness ==
    /\ op = "stop"
    /\ timer.stopped /\ timer.streak = 2
    /\ Connected # <<>>

\* C22: after stop(), every connected session is closed, and createTopic,
\* deleteTopic, subscribe, unsubscribe and publish change no broker state and
\* deliver no event.
C22_StopRefuses ==
    [][timer.stopped =>
         /\ \A id \in Sockets : sockets[id] # "open"
         /\ op' \in {"createTopic", "deleteTopic", "subscribe", "unsubscribe", "publish"} =>
               /\ topics' = topics
               /\ \A i \in 1..Len(out') : out'[i].type # "event"]_vars

\* C24: when deleteTopic emits a topic_deleted notice or closes a subscriber's
\* connection (whose disconnect handling then runs), the topic is already
\* absent from the registry.
C24_RemovedBeforeNotify ==
    [][(del.pc # "idle" /\ (DeleteEmit \/ DeleteDisconnect)) =>
         del.name \notin DOMAIN topics]_vars

\* C23: every ack, error and pong envelope a message handler emits goes to the
\* connection that sent the inbound envelope and carries its request_id
\* whenever the inbound envelope supplied one, and a connection other than the
\* sender receives nothing but events.
C23_RepliesStay ==
    [][\A id \in Sockets, rid \in RequestIds :
          (/\ del.pc = "idle"
           /\ \/ op' = "subscribe" /\ \E name \in TopicNames, lastN \in NoReplay :
                                          Subscribe(id, name, lastN, rid)
              \/ op' = "unsubscribe" /\ \E name \in TopicNames : Unsubscribe(id, name, rid)
              \/ op' = "publish" /\ \E name \in TopicNames : Publish(id, name, rid)
              \/ op' = "ping" /\ Ping(id, rid)
              \/ op' = "unknown" /\ Unknown(id, rid)) =>
             \A i \in 1..Len(out') :
                /\ out'[i].type \in {"ack", "error", "pong"} =>
                      /\ out'[i].to = id
                      /\ rid # None => out'[i].rid = rid
                /\ out'[i].to # id => out'[i].type = "event"]_vars

\* C28: an inbound envelope of an unknown type produces exactly one error
\* envelope with code BAD_REQUEST on the sending connection, leaves the
\* registry with its tables, rings and counters as it was, and leaves the
\* session open and ready for its next envelope.
C28_UnknownType ==
    [][\A id \in Sockets, rid \in RequestIds :
          (op' = "unknown" /\ Unknown(id, rid)) =>
             /\ Len(out') = 1
             /\ out'[1].type = "error" /\ out'[1].info = "BAD_REQUEST"
             /\ out'[1].to = id /\ out'[1].rid = rid
             /\ topics' = topics
             /\ published' = published
             /\ sockets' = sockets
             /\ sockets'[id] = "open" /\ del'.pc = "idle"]_vars

\* a subscriber has sent an envelope of an unknown type with a request id
C28_Witness ==
    /\ op = "unknown"
    /\ Len(out) = 1 /\ out[1].rid = <<"r1">>
    /\ \E name \in DOMAIN topics :
          /\ out[1].to \in Keys(topics[name].subscribers)
          /\ topics[name].stats.messages > 0

\* C25: for every capacity Q >= 0 and after any sequence of pushDropOldest and
\* drain calls, the queue holds between 0 and Q items in the order they were
\* pushed; pushDropOldest reports dropped = 1 exactly when the queue held Q
\* items and the oldest of them was discarded before the new one was appended,
\* and dropped = 0 otherwise.
C25_QueueContract ==
    [][unit.kind = "queue" =>
         /\ Len(unit'.queue.items) >= 0
         /\ Len(unit'.queue.items) <= unit.queue.capacity
         /\ Increasing(unit'.queue.items)
         /\ op' = "pushDropOldest" =>
               \E discarded \in {/\ Len(unit.queue.items) = unit.queue.capacity
                                  /\ unit.queue.items # <<>>
                                  /\ unit'.queue.items =
                                        Append(Tail(unit.queue.items), unit.next)} :
                  /\ unit'.dropped = 1 <=> discarded
                  /\ unit'.dropped = 0 <=> ~discarded
                  /\ ~discarded => unit'.queue.items = Append(unit.queue.items, unit.next)
         /\ op' = "drain" =>
               unit'.batch \o unit'.queue.items = unit.queue.items]_vars

\* C26: after any sequence of appends to a ring of capacity R, last(n) returns
\* the most recent min(n, min(appends, R)) appended values, oldest first, and
\* leaves the ring as it was; last(n) with n at least the current size equals
\* last(current size); with R = 0 append changes nothing and last returns the
\* empty list.
C26_RingLast ==
    [][unit.kind = "ring" =>
         /\ op' = "last" =>
               /\ unit'.result =
                     LastOf(unit.appended,
                            Min(unit'.n, Min(Len(unit.appended), unit.ring.capacity)))
               /\ unit'.ring = unit.ring
               /\ unit'.n >= unit.ring.count =>
                     unit'.result = last(unit.ring, unit.ring.count)
               /\ unit.ring.capacity = 0 => unit'.result = <<>>
         /\ op' = "append" =>
               /\ unit.ring.capacity = 0 => unit'.ring = unit.ring
               /\ unit'.ring.count = Min(Len(unit'.appended), unit.ring.capacity)]_vars

\* last(1) has been read from a ring of capacity 2 that has wrapped around
C26_Witness ==
    /\ unit.kind = "ring"
    /\ op = "last"
    /\ unit.ring.capacity = 2
    /\ unit.appended = <<1, 2, 1>>
    /\ unit.n = 2
    /\ unit.result = <<2, 1>>

\* C27: a subscribe without replay by a socket that topic t's table already
\* holds leaves the table with exactly one entry for that socket and the
\* subscribers counter as it was; no table ever holds a socket twice, and the
\* publish on t that follows emits exactly one event to that socket.
C27_ResubscribeIdempotent ==
    [][/\ \A id \in Sockets, name \in TopicNames, lastN \in NoReplay, rid \in NoRequestId :
             (/\ op' = "subscribe"
              /\ Subscribed(topics, name, id)
              /\ Subscribe(id, name, lastN, rid)) =>
                /\ Cardinality({i \in 1..Len(topics'[name].subscribers) :
                                   topics'[name].subscribers[i].id = id}) = 1
                /\ Len(topics'[name].subscribers) = Len(topics[name].subscribers)
                /\ topics'[name].stats.subscribers = topics[name].stats.subscribers
       /\ \A n \in DOMAIN topics' :
             Cardinality(Keys(topics'[n].subscribers)) = Len(topics'[n].subscribers)
       /\ (/\ op' = "publish"
           /\ hist.prev.op = "subscribe" /\ ~hist.prev.replay
           /\ hist.prev.id \in Keys(hist.prev.table)
           /\ hist'.prev.op = "publish" /\ hist'.prev.name = hist.prev.name) =>
             Len(EventsOn(out', hist.prev.id, hist.prev.name)) = 1]_vars

\* a publish has followed the re-subscribe of a socket on a topic with two
\* subscribers, and that socket got one event
C27_Witness ==
    /\ op = "publish"
    /\ hist.prev.op = "publish" /\ hist.prev.before = "resubscribe"
    /\ Len(topics[hist.prev.name].subscribers) = 2
    /\ topics[hist.prev.name].stats.subscribers = 2
    /\ Len(EventsOn(out, hist.prev.id, hist.prev.name)) = 1

\* C29: when deleteTopic(t) returns, every socket that t's table held when
\* the call began is closed and absent from the table of every remaining
\* topic, whose subscribers counter equals the size of its table; and no
\* handler emits an event to a closed socket afterwards.
C29_DeleteTerminates ==
    [][/\ (del.pc = "loop" /\ DeleteFinish) =>
             \A id \in del.captured :
                /\ sockets'[id] = "closed"
                /\ \A u \in DOMAIN topics' :
                      /\ id \notin Keys(topics'[u].subscribers)
                      /\ topics'[u].stats.subscribers = Len(topics'[u].subscribers)
       /\ (del.pc = "disconnect" /\ sockets[del.sub] = "open" /\ DeleteDisconnect) =>
             \A u \in DOMAIN topics' :
                /\ del.sub \notin Keys(topics'[u].subscribers)
                /\ topics'[u].stats.subscribers = Len(topics'[u].subscribers)
                /\ u \in hist'.prev.member =>
                      topics'[u].stats.subscribers = topics[u].stats.subscribers - 1
       /\ op' = "publish" =>
             \A i \in 1..Len(out') :
                out'[i].type = "event" =>
                   /\ sockets[out'[i].to] = "open"
                   /\ Subscribed(topics, out'[i].topic, out'[i].to)]_vars

\* deleteTopic has returned after closing a socket that was also in the table
\* of the other topic, which keeps its other subscriber
C29_Witness ==
    /\ op = "deleteTopic"
    /\ del.pc = "idle"
    /\ out # <<>> /\ out[Len(out)] = HttpResponse(200, "deleted", out[Len(out)].topic)
    /\ hist.prev.op = "disconnect"
    /\ hist.prev.member = TopicNames
    /\ sockets[hist.prev.id] = "closed"
    /\ \E u \in DOMAIN topics :
          /\ u # out[Len(out)].topic
          /\ Len(topics[u].subscribers) = 1
          /\ topics[u].stats.subscribers = 1
          /\ hist.prev.id \notin Keys(topics[u].subscribers)

\* C30: a subscribe that succeeds emits its ack first and its replay events
\* after it, all within the handler and all of messages published before it,
\* so that they precede every event of a later publish; a publish that
\* succeeds emits the event of the new message to every subscriber, the
\* publisher included when subscribed, and its ack to the publisher last.
C30_EmitOrder ==
    [][\A id \in Sockets, name \in TopicNames :
          /\ \A lastN \in LastNs, rid \in NoRequestId :
                (op' = "subscribe" /\ name \in DOMAIN topics /\ Subscribe(id, name, lastN, rid)) =>
                   /\ Len(out') >= 1
                   /\ out'[1] = AckMessage(id, name, None)
                   /\ \A i \in 2..Len(out') :
                         /\ out'[i].type = "event" /\ out'[i].to = id
                         /\ out'[i].id <= published
          /\ \A rid \in NoRequestId :
                (op' = "publish" /\ name \in DOMAIN topics /\ Publish(id, name, rid)) =>
                   /\ Len(out') = Len(topics[name].subscribers) + 1
                   /\ out'[Len(out')] = AckMessage(id, name, None)
                   /\ \A i \in 1..(Len(out') - 1) :
                         /\ out'[i].type = "event"
                         /\ out'[i].id = published + 1
                   /\ \A sid \in Keys(topics[name].subscribers) :
                         \E i \in 1..(Len(out') - 1) : out'[i].to = sid]_vars

\* a subscribe has been acked and then replayed two payloads, oldest first
C30_Witness ==
    /\ op = "subscribe"
    /\ Len(out) = 3
    /\ out[1].type = "ack"
    /\ out[2].type = "event" /\ out[3].type = "event"
    /\ out[2].id < out[3].id
    /\ out[3].id = published

====
